---------------------------- MODULE Spec2Model ----------------------------
(***************************************************************************)
(* A model of the parameter-store command line tool: the secret-type       *)
(* heuristic (detectParameterType), the .env parser of                     *)
(* GenerateTaskDefFromEnv, the ARN-to-path mapper (ExtractParameterName),  *)
(* the bulk operations over a task definition's secrets and the retrieval  *)
(* of parameters by prefix.                                                *)
(*                                                                         *)
(* A Go string is a sequence of one-character strings: <<"K","=","v">> is  *)
(* the Go string "K=v".  Every operation has a specification of its own    *)
(* (SpecClassify, SpecEnv, SpecArn, SpecBulk, SpecPrefix); the variables   *)
(* of the other operations rest at their idle values.                      *)
(***************************************************************************)
EXTENDS Integers, Sequences, FiniteSets

VARIABLES
    ckey, cvalue, cresult,                          \* detectParameterType(key, value) and its result
    lines, prefix, i, j, key, value, secrets, pc,   \* GenerateTaskDefFromEnv
    outJson,                                        \* the task definition written to the output file
    openedAt, contOf,                               \* history: the line each entry was opened at, the lines appended to it
    arn, arnOut,                                    \* ExtractParameterName(arn) and its result
    bop, taskDef, outputPrefix, store,              \* the bulk operations: the action, the JSON file, -o, the parameter store
    jsonMap, bidx, bpc, envMap, printed, berr,      \* their loop over containerDefinitions[0].secrets
    bsaved, outEnvFile, outJsonFile,                \* the dated .env and .json files of bulk get with -o
    calls,                                          \* history: the remote calls made
    qprefix, nextToken, envContent, psecrets, ppc, perr,   \* GetParametersByPrefix
    outEnv, outJsonP,                               \* the files <output-base>.env and <output-base>.json
    returned, requests,                             \* history: the parameters returned, the tokens sent
    replies,                                        \* history: the answers of the collaborator
    flags, mpc, exitCode, mrun, mremote, mmsg,      \* main: the command line, its position, exit code and what it ran
    configFile, configFile0, toolConfig, region,    \* config.json now and at the start, LoadConfig's result, *region
    sstore, sputs, sgot                             \* the stub store, history of its puts, the last GetParameter result

varsClassify == <<ckey, cvalue, cresult>>
varsEnv == <<lines, prefix, i, j, key, value, secrets, pc, outJson, openedAt, contOf>>
varsArn == <<arn, arnOut>>
varsBulk == <<bop, taskDef, outputPrefix, store, jsonMap, bidx, bpc, envMap, printed, berr,
              bsaved, outEnvFile, outJsonFile, calls>>
varsPrefix == <<qprefix, nextToken, envContent, psecrets, ppc, perr, outEnv, outJsonP,
                returned, requests, replies>>
varsMain == <<flags, mpc, exitCode, mrun, mremote, mmsg, configFile, configFile0, toolConfig, region>>
varsStore == <<sstore, sputs, sgot>>
vars == <<varsClassify, varsEnv, varsArn, varsBulk, varsPrefix, varsMain, varsStore>>

\* The variables an operation leaves alone: those of the other operations.
notClassify == <<varsEnv, varsArn, varsBulk, varsPrefix, varsMain, varsStore>>
notEnv == <<varsClassify, varsArn, varsBulk, varsPrefix, varsMain, varsStore>>
notArn == <<varsClassify, varsEnv, varsBulk, varsPrefix, varsMain, varsStore>>
notBulk == <<varsClassify, varsEnv, varsArn, varsPrefix, varsMain, varsStore>>
notPrefix == <<varsClassify, varsEnv, varsArn, varsBulk, varsMain, varsStore>>
notMain == <<varsClassify, varsEnv, varsArn, varsBulk, varsPrefix, varsStore>>
notStore == <<varsClassify, varsEnv, varsArn, varsBulk, varsPrefix, varsMain>>

---------------------------------------------------------------------------
(* Characters and strings *)

UpperSeq == <<"A","B","C","D","E","F","G","H","I","J","K","L","M","N","O","P","Q","R","S","T","U","V","W","X","Y","Z">>
LowerSeq == <<"a","b","c","d","e","f","g","h","i","j","k","l","m","n","o","p","q","r","s","t","u","v","w","x","y","z">>
DigitSeq == <<"0","1","2","3","4","5","6","7","8","9">>

Range(s) == { s[k] : k \in DOMAIN s }
Upper == Range(UpperSeq)
Lower == Range(LowerSeq)
Digit == Range(DigitSeq)

\* The class [A-Za-z0-9+/=] of the value patterns.
Base64Class == Upper \cup Lower \cup Digit \cup {"+", "/", "="}
\* The class [A-Za-z0-9+/=\-\n].
Base64LongClass == Base64Class \cup {"-", "\n"}
\* The classes of the new-entry pattern ^[A-Z_][A-Z0-9_]*=
KeyStartClass == Upper \cup {"_"}
KeyRestClass == Upper \cup Digit \cup {"_"}
\* The white space strings.TrimSpace removes (of the characters the model uses).
WhiteSpace == {" ", "\t", "\r", "\n"}

\* The task definition document before it is built: no container definition.
NoDocument == [containerDefinitions |-> <<>>]
\* A string variable that holds no Go string yet.
Unset == <<"unset">>
StringType == <<"S","t","r","i","n","g">>
SecureStringType == <<"S","e","c","u","r","e","S","t","r","i","n","g">>
StringListType == <<"S","t","r","i","n","g","L","i","s","t">>

\* The values the variables of an operation rest at while another one runs.
IdleClassify == ckey = <<>> /\ cvalue = <<>> /\ cresult = Unset
IdleEnv ==
    /\ lines = <<>> /\ prefix = <<>> /\ i = 0 /\ j = 0 /\ key = <<>> /\ value = <<>>
    /\ secrets = <<>> /\ pc = "idle" /\ outJson = NoDocument /\ openedAt = <<>> /\ contOf = <<>>
IdleArn == arn = <<>> /\ arnOut = Unset
IdleBulk ==
    /\ bop = "idle" /\ taskDef = <<>> /\ outputPrefix = <<>> /\ store = {}
    /\ jsonMap = <<>> /\ bidx = 0 /\ bpc = "idle" /\ envMap = {} /\ printed = <<>>
    /\ berr = "" /\ bsaved = FALSE /\ outEnvFile = <<>> /\ outJsonFile = <<>> /\ calls = <<>>
IdlePrefix ==
    /\ qprefix = <<>> /\ nextToken = 0 /\ envContent = <<>> /\ psecrets = <<>>
    /\ ppc = "idle" /\ perr = "" /\ returned = <<>> /\ requests = <<>> /\ replies = <<>>
    /\ outEnv = [written |-> FALSE, text |-> <<>>]
    /\ outJsonP = [written |-> FALSE, containerDefinitions |-> <<>>]
IdleMain ==
    /\ flags = [action |-> "", name |-> "", value |-> "", s |-> "", o |-> "", prefix |-> "",
                type |-> <<>>, region |-> <<>>, h |-> FALSE]
    /\ mpc = "idle" /\ exitCode = -1 /\ mrun = "" /\ mremote = FALSE /\ mmsg = ""
    /\ configFile = [exists |-> FALSE, readable |-> FALSE, valid |-> FALSE, fields |-> {}]
    /\ configFile0 = configFile
    /\ toolConfig = [ParameterPrefix |-> <<>>, Region |-> <<>>]
    /\ region = <<>>
IdleStore ==
    /\ sstore = {} /\ sputs = <<>>
    /\ sgot = [done |-> FALSE, ok |-> FALSE, path |-> <<>>, value |-> <<>>, type |-> <<>>, at |-> 0]
OthersIdleClassify == IdleEnv /\ IdleArn /\ IdleBulk /\ IdlePrefix /\ IdleMain /\ IdleStore
OthersIdleEnv == IdleClassify /\ IdleArn /\ IdleBulk /\ IdlePrefix /\ IdleMain /\ IdleStore
OthersIdleArn == IdleClassify /\ IdleEnv /\ IdleBulk /\ IdlePrefix /\ IdleMain /\ IdleStore
OthersIdleBulk == IdleClassify /\ IdleEnv /\ IdleArn /\ IdlePrefix /\ IdleMain /\ IdleStore
OthersIdlePrefix == IdleClassify /\ IdleEnv /\ IdleArn /\ IdleBulk /\ IdleMain /\ IdleStore
OthersIdleMain == IdleClassify /\ IdleEnv /\ IdleArn /\ IdleBulk /\ IdlePrefix /\ IdleStore
OthersIdleStore == IdleClassify /\ IdleEnv /\ IdleArn /\ IdleBulk /\ IdlePrefix /\ IdleMain

Rep(c, n) == [k \in 1..n |-> c]

\* strings.HasPrefix
HasPrefix(s, p) == Len(s) >= Len(p) /\ SubSeq(s, 1, Len(p)) = p

\* strings.Contains
Contains(s, p) == \E k \in 0..(Len(s) - Len(p)) : SubSeq(s, k + 1, k + Len(p)) = p

\* strings.ToLower
ToLowerChar(c) ==
    IF c \in Upper THEN LowerSeq[CHOOSE k \in DOMAIN UpperSeq : UpperSeq[k] = c] ELSE c
ToLower(s) == [k \in DOMAIN s |-> ToLowerChar(s[k])]

\* strings.TrimSpace
RECURSIVE TrimLeft(_)
TrimLeft(s) == IF s # <<>> /\ Head(s) \in WhiteSpace THEN TrimLeft(Tail(s)) ELSE s
RECURSIVE TrimRight(_)
TrimRight(s) ==
    IF s # <<>> /\ s[Len(s)] \in WhiteSpace THEN TrimRight(SubSeq(s, 1, Len(s) - 1)) ELSE s
TrimSpace(s) == TrimRight(TrimLeft(s))

\* strings.Index of a character: the first index holding c, 0 when there is none.
IndexOf(s, c) ==
    IF \E k \in DOMAIN s : s[k] = c
    THEN CHOOSE k \in DOMAIN s : s[k] = c /\ \A m \in 1..(k - 1) : s[m] # c
    ELSE 0

\* strings.SplitN(s, sep, 2): one part when sep is absent, else the text before
\* the first sep and the whole text after it.
SplitN2(s, sep) ==
    LET at == IndexOf(s, sep)
    IN  IF at = 0 THEN <<s>> ELSE <<SubSeq(s, 1, at - 1), SubSeq(s, at + 1, Len(s))>>

\* The index after the longest run of characters of class starting at index k.
RECURSIVE ScanClass(_, _, _)
ScanClass(s, k, class) ==
    IF k <= Len(s) /\ s[k] \in class THEN ScanClass(s, k + 1, class) ELSE k

\* The index after the longest run of characters other than c starting at index k.
RECURSIVE ScanNot(_, _, _)
ScanNot(s, k, c) ==
    IF k <= Len(s) /\ s[k] # c THEN ScanNot(s, k + 1, c) ELSE k

---------------------------------------------------------------------------
(* detectParameterType *)

Kw_password == <<"p","a","s","s","w","o","r","d">>
Kw_secret == <<"s","e","c","r","e","t">>
Kw_key == <<"k","e","y">>
Kw_token == <<"t","o","k","e","n">>
Kw_api == <<"a","p","i">>
Kw_auth == <<"a","u","t","h">>
Kw_credential == <<"c","r","e","d","e","n","t","i","a","l">>
Kw_private == <<"p","r","i","v","a","t","e">>
Kw_cert == <<"c","e","r","t">>
Kw_ssl == <<"s","s","l">>
Kw_secure == <<"s","e","c","u","r","e">>

secretKeywords ==
    <<Kw_password, Kw_secret, Kw_key, Kw_token, Kw_api, Kw_auth, Kw_credential,
      Kw_private, Kw_cert, Kw_ssl, Kw_secure>>

BeginMarker == <<"-","-","-","-","-","B","E","G","I","N">>
HttpPrefix == <<"h","t","t","p">>
SchemeSep == <<":","/","/">>

\* The least length of a value the long-alphanumeric pattern {20,} accepts.
MinApiKeyLen == 20
\* len(value) > 20 of the base64-like rule.
LongValueLen == 20

\* HasSecretKeyword without strings.ToLower: the keywords are matched case-sensitively.
HasSecretKeywordCaseSensitive(k) ==
    \E n \in DOMAIN secretKeywords : Contains(k, secretKeywords[n])

\* The loop over secretKeywords: the lower-cased key contains one of them.
HasSecretKeyword(k) ==
    LET lowerKey == ToLower(k)
    IN  \E n \in DOMAIN secretKeywords : Contains(lowerKey, secretKeywords[n])

\* regexp ^[A-Za-z0-9+/=]{20,}$
MatchApiKey(v) ==
    LET e == ScanClass(v, 1, Base64Class)
    IN  e - 1 >= MinApiKeyLen /\ e = Len(v) + 1

\* regexp ^https?://[^@]+@
MatchUrlCreds(v) ==
    /\ HasPrefix(v, HttpPrefix)
    /\ LET a == IF Len(v) >= 5 /\ v[5] = "s" THEN 6 ELSE 5
           b == a + Len(SchemeSep)
           e == ScanNot(v, b, "@")
       IN  /\ Len(v) >= b - 1
           /\ SubSeq(v, a, b - 1) = SchemeSep
           /\ e > b
           /\ e <= Len(v)

\* regexp ^[A-Za-z0-9+/=]+\.[A-Za-z0-9+/=]+\.[A-Za-z0-9+/=]+$
MatchJwt(v) ==
    LET e1 == ScanClass(v, 1, Base64Class)
        e2 == ScanClass(v, e1 + 1, Base64Class)
        e3 == ScanClass(v, e2 + 1, Base64Class)
    IN  /\ e1 > 1 /\ e1 <= Len(v) /\ v[e1] = "."
        /\ e2 > e1 + 1 /\ e2 <= Len(v) /\ v[e2] = "."
        /\ e3 > e2 + 1 /\ e3 = Len(v) + 1

\* MatchBase64Long with len(value) >= 20 for len(value) > 20.
MatchBase64LongOffByOne(v) ==
    /\ Len(v) >= LongValueLen
    /\ LET e == ScanClass(v, 1, Base64LongClass) IN e > 1 /\ e = Len(v) + 1

\* len(value) > 20 and regexp ^[A-Za-z0-9+/=\-\n]+$
MatchBase64Long(v) ==
    /\ Len(v) > LongValueLen
    /\ LET e == ScanClass(v, 1, Base64LongClass) IN e > 1 /\ e = Len(v) + 1

detectParameterType(k, v) ==
    IF HasSecretKeyword(k) THEN SecureStringType
    ELSE IF Contains(v, BeginMarker) THEN SecureStringType
    ELSE IF MatchApiKey(v) THEN SecureStringType
    ELSE IF MatchUrlCreds(v) THEN SecureStringType
    ELSE IF MatchJwt(v) THEN SecureStringType
    ELSE IF MatchBase64Long(v) THEN SecureStringType
    ELSE StringType

---------------------------------------------------------------------------
(* The inputs of detectParameterType and the specification that applies it *)

\* The number of pieces a value is put together from.
MaxPieces == 3
\* The length of the long alphanumeric piece, one short of the {20,} pattern.
RunLen == 19

HttpScheme == <<"h","t","t","p",":","/","/">>
HttpsScheme == <<"h","t","t","p","s",":","/","/">>

ValuePieces ==
    { Rep("a", RunLen), <<"+">>, <<"-">>, <<"\n">>, <<".">>, <<"@">>,
      <<"a",".","B">>, HttpScheme, HttpsScheme, BeginMarker }

RECURSIVE Concat(_)
Concat(ss) == IF ss = <<>> THEN <<>> ELSE Head(ss) \o Concat(Tail(ss))

ClassifyValues ==
    { Concat(ps) : ps \in UNION { [1..n -> ValuePieces] : n \in 0..MaxPieces } }

\* Every letter case of the keyword "key", and keys with and without a keyword.
ClassifyKeys ==
    { <<a, b, c>> : a \in {"k", "K"}, b \in {"e", "E"}, c \in {"y", "Y"} }
    \cup
    { <<>>,
      <<"N","A","M","E">>,
      <<"K","E","_","Y">>,
      <<"P","a","s","s","w","o","r","d">>,
      <<"D","B","_","P","A","S","S","W","O","R","D">>,
      <<"A","P","I","_","U","R","L">> }

InitClassify ==
    /\ ckey \in ClassifyKeys
    /\ cvalue \in ClassifyValues
    /\ cresult = Unset
    /\ OthersIdleClassify

\* One call detectParameterType(ckey, cvalue).
Classify ==
    /\ cresult = Unset
    /\ cresult' = detectParameterType(ckey, cvalue)
    /\ UNCHANGED <<ckey, cvalue, notClassify>>

NextClassify == Classify

SpecClassify == InitClassify /\ [][NextClassify]_vars

---------------------------------------------------------------------------
(* Claims on detectParameterType *)

ClaimKeywords ==
    { Kw_password, Kw_secret, Kw_key, Kw_token, Kw_api, Kw_auth, Kw_credential,
      Kw_private, Kw_cert, Kw_ssl, Kw_secure }

\* Rule 1: the lower-cased key contains one of the keywords.
Rule1(k) ==
    \E w \in ClaimKeywords : \E off \in 0..(Len(k) - Len(w)) :
        \A m \in 1..Len(w) : ToLowerChar(k[off + m]) = w[m]
\* Rule 2: the value contains -----BEGIN.
Rule2(v) ==
    \E off \in 0..(Len(v) - Len(BeginMarker)) :
        \A m \in 1..Len(BeginMarker) : v[off + m] = BeginMarker[m]
\* Rule 3: 20 or more characters, all in [A-Za-z0-9+/=].
Rule3(v) == Len(v) >= 20 /\ \A m \in DOMAIN v : v[m] \in Base64Class
\* Rule 4: http:// or https://, one or more characters other than @, then @.
Rule4(v) ==
    \E scheme \in {HttpScheme, HttpsScheme} : \E at \in (Len(scheme) + 2)..Len(v) :
        /\ \A m \in 1..Len(scheme) : v[m] = scheme[m]
        /\ v[at] = "@"
        /\ \A m \in (Len(scheme) + 1)..(at - 1) : v[m] # "@"
\* Rule 5: exactly three non-empty dot-separated segments over [A-Za-z0-9+/=].
Rule5(v) ==
    \E d1 \in DOMAIN v : \E d2 \in DOMAIN v :
        /\ 1 < d1 /\ d1 + 1 < d2 /\ d2 < Len(v)
        /\ v[d1] = "." /\ v[d2] = "."
        /\ \A m \in DOMAIN v \ {d1, d2} : v[m] \in Base64Class
\* Rule 6: longer than 20 characters, all in [A-Za-z0-9+/=], - or newline.
Rule6(v) == Len(v) > 20 /\ \A m \in DOMAIN v : v[m] \in Base64Class \cup {"-", "\n"}

ValueRules(v) == Rule2(v) \/ Rule3(v) \/ Rule4(v) \/ Rule5(v) \/ Rule6(v)

\* C1: detectParameterType returns String or SecureString for every (key, value),
\* and SecureString exactly when at least one of the six rules holds, whatever
\* the order the rules are tried in.
C1_SecretIffSomeRule ==
    cresult # Unset =>
        /\ cresult \in {StringType, SecureStringType}
        /\ cresult = SecureStringType <=> (Rule1(ckey) \/ ValueRules(cvalue))

\* A value that rules 3 and 6 both accept, under a key with no keyword, was classified.
C1_Witness ==
    /\ cresult = SecureStringType
    /\ ~Rule1(ckey) /\ Rule3(cvalue) /\ Rule6(cvalue)
    /\ ~Rule2(cvalue) /\ ~Rule4(cvalue) /\ ~Rule5(cvalue)

\* The key contains a keyword, each letter in either case.
KeywordAnyCase(k) ==
    \E w \in ClaimKeywords : \E off \in 0..(Len(k) - Len(w)) :
        \A m \in 1..Len(w) :
            \/ k[off + m] = w[m]
            \/ \E n \in DOMAIN LowerSeq : LowerSeq[n] = w[m] /\ UpperSeq[n] = k[off + m]

\* C2: a key that contains a secret keyword in any letter case is classified
\* SecureString for every value, the empty value included; for the empty key the
\* value rules alone decide.
C2_KeywordDominates ==
    cresult # Unset =>
        /\ KeywordAnyCase(ckey) => cresult = SecureStringType
        /\ ckey = <<>> => (cresult = SecureStringType <=> ValueRules(cvalue))

\* The key Password with the empty value was classified SecureString.
C2_Witness ==
    /\ ckey = <<"P","a","s","s","w","o","r","d">>
    /\ cvalue = <<>>
    /\ cresult = SecureStringType

---------------------------------------------------------------------------
(* GenerateTaskDefFromEnv: the .env parser.  lines is strings.Split(data, "\n"); *)
(* the Go indices i and j count from 0, the model's from 1.                     *)

\* The greatest number of physical lines of an input file.
MaxLines == 4

\* regexp ^[A-Z_][A-Z0-9_]*= on the trimmed line
MatchNewEntry(s) ==
    /\ Len(s) >= 2
    /\ s[1] \in KeyStartClass
    /\ LET e == ScanClass(s, 2, KeyRestClass) IN e <= Len(s) /\ s[e] = "="

line == TrimSpace(lines[i])
nextLine == TrimSpace(lines[j])
parts == SplitN2(line, "=")

ExtendedSecret(name, valueFrom, type, val) ==
    [Name |-> name, ValueFrom |-> valueFrom, Type |-> type, Value |-> val]

\* for i < len(lines): the loop ends; the task definition is marshalled and written.
WriteTaskDef ==
    /\ pc = "outer"
    /\ i > Len(lines)
    /\ outJson' = [containerDefinitions |-> <<[Secrets |-> secrets]>>]
    /\ pc' = "done"
    /\ UNCHANGED <<lines, prefix, i, j, key, value, secrets, openedAt, contOf, notEnv>>

\* A blank line or a # comment at the outer loop: i++, continue.
SkipLine ==
    /\ pc = "outer"
    /\ i <= Len(lines)
    /\ line = <<>> \/ HasPrefix(line, <<"#">>)
    /\ i' = i + 1
    /\ UNCHANGED <<lines, prefix, j, key, value, secrets, pc, outJson, openedAt, contOf, notEnv>>

\* len(parts) != 2: a line without = at the outer loop is skipped.
SkipInvalid ==
    /\ pc = "outer"
    /\ i <= Len(lines)
    /\ ~(line = <<>> \/ HasPrefix(line, <<"#">>))
    /\ Len(parts) # 2
    /\ i' = i + 1
    /\ UNCHANGED <<lines, prefix, j, key, value, secrets, pc, outJson, openedAt, contOf, notEnv>>

\* key, value := the trimmed parts; the accumulation loop starts at j := i + 1.
OpenEntry ==
    /\ pc = "outer"
    /\ i <= Len(lines)
    /\ ~(line = <<>> \/ HasPrefix(line, <<"#">>))
    /\ Len(parts) = 2
    /\ key' = TrimSpace(parts[1])
    /\ value' = TrimSpace(parts[2])
    /\ j' = i + 1
    /\ pc' = "accum"
    /\ openedAt' = Append(openedAt, i)
    /\ contOf' = Append(contOf, <<>>)
    /\ UNCHANGED <<lines, prefix, i, secrets, outJson, notEnv>>

\* AccumStop setting i to j: the matching line is consumed with the entry.
AccumStopConsumes ==
    /\ pc = "accum"
    /\ j <= Len(lines)
    /\ MatchNewEntry(nextLine)
    /\ i' = j
    /\ pc' = "emit"
    /\ UNCHANGED <<lines, prefix, j, key, value, secrets, outJson, openedAt, contOf, notEnv>>

\* The next line looks like a new key=value: i = j - 1, break.
AccumStop ==
    /\ pc = "accum"
    /\ j <= Len(lines)
    /\ MatchNewEntry(nextLine)
    /\ i' = j - 1
    /\ pc' = "emit"
    /\ UNCHANGED <<lines, prefix, j, key, value, secrets, outJson, openedAt, contOf, notEnv>>

\* AccumAppend that leaves i alone at the last line.
AccumAppendKeepsIndex ==
    /\ pc = "accum"
    /\ j <= Len(lines)
    /\ ~MatchNewEntry(nextLine)
    /\ nextLine # <<>>
    /\ value' = value \o <<"\n">> \o nextLine
    /\ contOf' = [contOf EXCEPT ![Len(contOf)] = Append(@, j)]
    /\ j' = j + 1
    /\ UNCHANGED <<lines, prefix, i, key, secrets, pc, outJson, openedAt, notEnv>>

\* A non-empty line that does not match: value += "\n" + nextLine; at the last
\* line i = j.
AccumAppend ==
    /\ pc = "accum"
    /\ j <= Len(lines)
    /\ ~MatchNewEntry(nextLine)
    /\ nextLine # <<>>
    /\ value' = value \o <<"\n">> \o nextLine
    /\ contOf' = [contOf EXCEPT ![Len(contOf)] = Append(@, j)]
    /\ i' = IF j = Len(lines) THEN j ELSE i
    /\ j' = j + 1
    /\ UNCHANGED <<lines, prefix, key, secrets, pc, outJson, openedAt, notEnv>>

\* An empty line inside the accumulation loop adds nothing; at the last line i = j.
AccumSkipBlank ==
    /\ pc = "accum"
    /\ j <= Len(lines)
    /\ ~MatchNewEntry(nextLine)
    /\ nextLine = <<>>
    /\ i' = IF j = Len(lines) THEN j ELSE i
    /\ j' = j + 1
    /\ UNCHANGED <<lines, prefix, key, value, secrets, pc, outJson, openedAt, contOf, notEnv>>

\* j < len(lines) fails: the accumulation loop ends at the end of the input.
AccumEnd ==
    /\ pc = "accum"
    /\ j > Len(lines)
    /\ pc' = "emit"
    /\ UNCHANGED <<lines, prefix, i, j, key, value, secrets, outJson, openedAt, contOf, notEnv>>

\* EmitEntry with the key lower-cased in valueFrom.
EmitEntryLowerKey ==
    /\ pc = "emit"
    /\ secrets' = Append(secrets,
          ExtendedSecret(key, prefix \o ToLower(key), detectParameterType(key, value), value))
    /\ i' = i + 1
    /\ pc' = "outer"
    /\ UNCHANGED <<lines, prefix, j, key, value, outJson, openedAt, contOf, notEnv>>

\* The entry is classified and appended to secrets; i++.
EmitEntry ==
    /\ pc = "emit"
    /\ secrets' = Append(secrets,
          ExtendedSecret(key, prefix \o key, detectParameterType(key, value), value))
    /\ i' = i + 1
    /\ pc' = "outer"
    /\ UNCHANGED <<lines, prefix, j, key, value, outJson, openedAt, contOf, notEnv>>

\* The lines an input file is made of.
LinePool ==
    { <<" ">>,
      <<"#","c">>,
      <<"A","=","1">>,
      <<" ","A"," ","="," ","2"," ">>,
      <<"b","=","3">>,
      <<"x","y">>,
      <<"_","B","1","=","x","=","y">> }

CertLine1 == <<"C","E","R","T","=","-","-","-","-","-","B","E","G","I","N"," ","C","E","R","T","I","F","I","C","A","T","E","-","-","-","-","-">>
CertLine2 == <<"M","I","I","B","I","j","A","N","B","g","k","q","h","k","i","G","9","w","0","B","A","Q","E","F","A","A","O","C","A","Q","8","A",".",".",".">>
CertLine3 == <<"-","-","-","-","-","E","N","D"," ","C","E","R","T","I","F","I","C","A","T","E","-","-","-","-","-">>
CertLine4 == <<"N","E","X","T","=","v","a","l","u","e","2">>
\* The CERT/NEXT example, without and with a final newline.
CertExample == <<CertLine1, CertLine2, CertLine3, CertLine4>>
CertExampleNewline == <<CertLine1, CertLine2, CertLine3, CertLine4, <<>>>>

EnvPrefix == <<"/","p","/">>

InitEnv ==
    /\ lines \in UNION { [1..n -> LinePool] : n \in 1..MaxLines }
                 \cup {CertExample, CertExampleNewline}
    /\ prefix = EnvPrefix
    /\ i = 1 /\ j = 0 /\ key = <<>> /\ value = <<>>
    /\ secrets = <<>> /\ pc = "outer" /\ outJson = NoDocument
    /\ openedAt = <<>> /\ contOf = <<>>
    /\ OthersIdleEnv

NextEnv ==
    \/ SkipLine
    \/ SkipInvalid
    \/ OpenEntry
    \/ AccumStop
    \/ AccumAppend
    \/ AccumSkipBlank
    \/ AccumEnd
    \/ EmitEntry
    \/ WriteTaskDef

SpecEnv == InitEnv /\ [][NextEnv]_vars

---------------------------------------------------------------------------
(* Claims on the .env parser *)

Trimmed(k) == TrimSpace(lines[k])
IsBlank(k) == Trimmed(k) = <<>>
IsComment(k) == Trimmed(k) # <<>> /\ Trimmed(k)[1] = "#"
MatchesPattern(k) == MatchNewEntry(Trimmed(k))

\* The key and the first-line value of an entry line: the trimmed texts before
\* and after its first =.
EqAt(k) == CHOOSE e \in DOMAIN Trimmed(k) :
               Trimmed(k)[e] = "=" /\ \A m \in 1..(e - 1) : Trimmed(k)[m] # "="
KeyOf(k) == TrimSpace(SubSeq(Trimmed(k), 1, EqAt(k) - 1))
FirstValueOf(k) == TrimSpace(SubSeq(Trimmed(k), EqAt(k) + 1, Len(Trimmed(k))))

\* The first line after line o that matches the pattern, or the end of the input.
NextMatch(o) ==
    IF \E k \in (o + 1)..Len(lines) : MatchesPattern(k)
    THEN CHOOSE k \in (o + 1)..Len(lines) :
             MatchesPattern(k) /\ \A m \in (o + 1)..(k - 1) : ~MatchesPattern(m)
    ELSE Len(lines) + 1

\* "\n" + trim(line) for each non-blank line from..to, in file order.
RECURSIVE JoinContinuation(_, _)
JoinContinuation(from, to) ==
    IF from > to THEN <<>>
    ELSE (IF IsBlank(from) THEN <<>> ELSE <<"\n">> \o Trimmed(from))
         \o JoinContinuation(from + 1, to)

ExpectedValue(o) == FirstValueOf(o) \o JoinContinuation(o + 1, NextMatch(o) - 1)

S_CERT == <<"C","E","R","T">>
S_NEXT == <<"N","E","X","T">>
S_value2 == <<"v","a","l","u","e","2">>

\* C3: an entry opened at line o has the value trim(v) followed by "\n" + trim(line)
\* for each non-blank line up to the next line that matches the pattern (or the
\* end of the input); that matching line is not consumed and opens the next
\* entry; the CERT/NEXT example gives exactly two entries.
C3_MultiLineAccumulation ==
    /\ \A n \in DOMAIN secrets :
          /\ secrets[n].Name = KeyOf(openedAt[n])
          /\ secrets[n].Value = ExpectedValue(openedAt[n])
          /\ n < Len(openedAt) => openedAt[n + 1] = NextMatch(openedAt[n])
          /\ (pc = "done" /\ n = Len(secrets)) => NextMatch(openedAt[n]) = Len(lines) + 1
    /\ (pc = "done" /\ lines \in {CertExample, CertExampleNewline}) =>
          /\ Len(secrets) = 2
          /\ secrets[1].Name = S_CERT
          /\ secrets[1].Value =
                 SubSeq(CertLine1, 6, Len(CertLine1)) \o <<"\n">> \o CertLine2
                 \o <<"\n">> \o CertLine3
          /\ secrets[2].Name = S_NEXT
          /\ secrets[2].Value = S_value2

\* An entry with a continuation line and a blank line before the next entry was parsed.
C3_Witness ==
    /\ pc = "done"
    /\ \E n \in DOMAIN secrets :
          /\ n < Len(secrets)
          /\ Len(contOf[n]) >= 1
          /\ openedAt[n + 1] - openedAt[n] - 1 > Len(contOf[n])

\* C4: every entry was opened at a line that matches ^[A-Z_][A-Z0-9_]*= and
\* every other non-blank line after an open entry was appended to that entry.
C4_EntriesOpenAtPatternLines ==
    /\ \A n \in DOMAIN openedAt : MatchesPattern(openedAt[n])
    /\ pc = "done" =>
          \A k \in DOMAIN lines :
              (~IsBlank(k) /\ ~MatchesPattern(k) /\ \E n \in DOMAIN openedAt : openedAt[n] < k)
              => \E n \in DOMAIN contOf :
                     /\ openedAt[n] < k
                     /\ n < Len(openedAt) => k < openedAt[n + 1]
                     /\ \E m \in DOMAIN contOf[n] : contOf[n][m] = k

\* C5: no blank line and no # comment line becomes part of an entry's key or value.
C5_BlankAndCommentIgnored ==
    /\ \A n \in DOMAIN openedAt : ~IsBlank(openedAt[n]) /\ ~IsComment(openedAt[n])
    /\ \A n \in DOMAIN contOf : \A m \in DOMAIN contOf[n] :
          ~IsBlank(contOf[n][m]) /\ ~IsComment(contOf[n][m])

\* A line that opens an entry: the first line that is neither blank nor a comment
\* and holds an =, and every later line that matches the pattern.
IsEntryLine(k) == ~IsBlank(k) /\ ~IsComment(k) /\ \E m \in DOMAIN Trimmed(k) : Trimmed(k)[m] = "="
Opening(k) ==
    /\ IsEntryLine(k)
    /\ MatchesPattern(k) \/ \A m \in 1..(k - 1) : ~IsEntryLine(m)
OpenLines == { k \in DOMAIN lines : Opening(k) }
NthOpen(n) == CHOOSE k \in OpenLines : Cardinality({ m \in OpenLines : m < k }) = n - 1

\* C6: the n-th emitted secret is the entry of the n-th entry-opening line from
\* the top, duplicates of a key are kept, each with its own value, and valueFrom
\* is the prefix followed by the key as parsed.
C6_OrderAndDuplicatesKept ==
    /\ Len(secrets) <= Cardinality(OpenLines)
    /\ \A n \in DOMAIN secrets :
          /\ secrets[n].Name = KeyOf(NthOpen(n))
          /\ secrets[n].Value = ExpectedValue(NthOpen(n))
          /\ secrets[n].ValueFrom = prefix \o KeyOf(NthOpen(n))
    /\ pc = "done" =>
          /\ Len(secrets) = Cardinality(OpenLines)
          /\ outJson = [containerDefinitions |-> <<[Secrets |-> secrets]>>]

\* A file whose key opens two entries with different values was written out.
C6_Witness ==
    /\ pc = "done"
    /\ \E a \in DOMAIN secrets : \E b \in DOMAIN secrets :
          /\ a < b
          /\ secrets[a].Name = secrets[b].Name
          /\ secrets[a].Value # secrets[b].Value
          /\ outJson.containerDefinitions[1].Secrets = secrets

---------------------------------------------------------------------------
(* ExtractParameterName *)

\* strings.Split(s, sep) for a one-character sep: the texts between the seps,
\* one more than there are seps.
RECURSIVE Split(_, _)
Split(s, sep) ==
    LET at == IndexOf(s, sep)
    IN  IF at = 0 THEN <<s>>
        ELSE <<SubSeq(s, 1, at - 1)>> \o Split(SubSeq(s, at + 1, Len(s)), sep)

\* strings.TrimPrefix
TrimPrefix(s, p) == IF HasPrefix(s, p) THEN SubSeq(s, Len(p) + 1, Len(s)) ELSE s

S_ssm == <<"s","s","m">>
S_parameterSlash == <<"p","a","r","a","m","e","t","e","r","/">>

\* len(parts) < 6: the least number of colon-separated parts of an ARN.
MinArnParts == 6

\* ExtractParameterName without the check of the service part.
ExtractParameterNameAnyService(a) ==
    LET arnParts == Split(a, ":")
    IN  IF Len(arnParts) < MinArnParts THEN <<>>
        ELSE IF ~HasPrefix(arnParts[6], S_parameterSlash) THEN <<>>
        ELSE <<"/">> \o TrimPrefix(arnParts[6], S_parameterSlash)

ExtractParameterName(a) ==
    LET arnParts == Split(a, ":")
    IN  IF Len(arnParts) < MinArnParts \/ arnParts[3] # S_ssm THEN <<>>
        ELSE LET paramPath == arnParts[6]
             IN  IF ~HasPrefix(paramPath, S_parameterSlash) THEN <<>>
                 ELSE <<"/">> \o TrimPrefix(paramPath, S_parameterSlash)

\* The greatest number of colon-separated parts of an input.
MaxParts == 7

RECURSIVE Join(_, _)
Join(ss, sep) ==
    IF ss = <<>> THEN <<>>
    ELSE IF Len(ss) = 1 THEN ss[1]
    ELSE ss[1] \o <<sep>> \o Join(Tail(ss), sep)

\* The texts the k-th colon-separated part of an input is drawn from.
PartChoices(k) ==
    CASE k = 1 -> { <<"a","r","n">> }
      [] k = 2 -> { <<"a","w","s">> }
      [] k = 3 -> { S_ssm, <<"s","3">>, <<"S","S","M">> }
      [] k = 4 -> { <<"r">>, <<>> }
      [] k = 5 -> { <<"1">> }
      [] k = 6 -> { S_parameterSlash \o <<"x">>,
                    S_parameterSlash,
                    S_parameterSlash \o <<"x","/","y">>,
                    S_parameterSlash \o <<"/","x">>,
                    <<"p","a","r","a","m","e","t","e","r">>,
                    <<"p","a","r","a","m","/","x">>,
                    <<"x">> \o S_parameterSlash \o <<"x">>,
                    <<"/","x">> }
      [] OTHER -> { <<"2">> }

ExampleArn ==
    <<"a","r","n",":","a","w","s",":","s","s","m",":","a","p","-","s","o","u","t","h","e","a","s","t","-","3",":",
      "1","2","3","4","5","6","7","8","9","0","1","2",":","p","a","r","a","m","e","t","e","r","/","a","p","p","/","d","b","/","p","a","s","s","w","o","r","d">>
ExamplePath == <<"/","a","p","p","/","d","b","/","p","a","s","s","w","o","r","d">>
\* The bare path of the README's template.
BarePath == <<"/","m","y","a","p","p","/","d","b","/","p","a","s","s","w","o","r","d">>

\* The sequences of n parts, the k-th drawn from PartChoices(k).
RECURSIVE PartSeqs(_)
PartSeqs(n) ==
    IF n = 0 THEN { <<>> }
    ELSE { Append(ps, c) : ps \in PartSeqs(n - 1), c \in PartChoices(n) }

ArnInputs ==
    { Join(ps, ":") : ps \in UNION { PartSeqs(n) : n \in 0..MaxParts } }
    \cup { ExampleArn, BarePath }

InitArn ==
    /\ arn \in ArnInputs
    /\ arnOut = Unset
    /\ OthersIdleArn

\* One call ExtractParameterName(arn).
Extract ==
    /\ arnOut = Unset
    /\ arnOut' = ExtractParameterName(arn)
    /\ UNCHANGED <<arn, notArn>>

NextArn == Extract

SpecArn == InitArn /\ [][NextArn]_vars

---------------------------------------------------------------------------
(* Claims on ExtractParameterName *)

\* The indices of the colons of s, and the n-th of them.
Colons(s) == { k \in DOMAIN s : s[k] = ":" }
NthColon(s, n) == CHOOSE k \in Colons(s) : Cardinality({ m \in Colons(s) : m < k }) = n - 1

\* At least 6 colon-separated parts, the third ssm, the sixth starting with parameter/.
ValidArnShape(s) ==
    /\ Cardinality(Colons(s)) >= 5
    /\ SubSeq(s, NthColon(s, 2) + 1, NthColon(s, 3) - 1) = S_ssm
    /\ LET from == NthColon(s, 5) + 1
           to == IF Cardinality(Colons(s)) >= 6 THEN NthColon(s, 6) - 1 ELSE Len(s)
       IN  /\ to - from + 1 >= Len(S_parameterSlash)
           /\ \A m \in 1..Len(S_parameterSlash) : s[from + m - 1] = S_parameterSlash[m]

\* C8: ExtractParameterName returns a non-empty path exactly when the input has at
\* least 6 colon-separated parts, the third ssm and the sixth starting with
\* parameter/; for every other input it returns the empty string.
C8_NonEmptyIffValidShape ==
    arnOut # Unset =>
        /\ arnOut # <<>> <=> ValidArnShape(arn)
        /\ arnOut # <<>> => arnOut[1] = "/"
        /\ arn = BarePath => arnOut = <<>>

\* The example ARN was mapped to its path.
C8_Witness == arn = ExampleArn /\ arnOut = ExamplePath

ClaimRegions == { <<"r">>, <<>> }
ClaimAccounts == { <<"1">> }
ClaimPaths == { <<"/","x">>, <<"/">>, <<"/","x","/","y">>, <<"/","/","x">>, <<"/","x",":","2">> }
BuildArn(r, a, p) ==
    <<"a","r","n",":","a","w","s",":","s","s","m",":">> \o r \o <<":">> \o a
    \o <<":","p","a","r","a","m","e","t","e","r">> \o p

\* C9: for every region r, account a and string p beginning with /,
\* ExtractParameterName("arn:aws:ssm:" + r + ":" + a + ":parameter" + p) = p.
C9_RoundTrip ==
    \A r \in ClaimRegions : \A a \in ClaimAccounts : \A p \in ClaimPaths :
        (arn = BuildArn(r, a, p) /\ arnOut # Unset) => arnOut = p

---------------------------------------------------------------------------
(* The parameter store and the bulk operations GetParametersFromFile and       *)
(* PutParametersFromTemplate.  The store is the set of its parameters, at most *)
(* one per path; a remote put may fail, a get fails when the path is absent.   *)

\* The greatest number of secrets of a container definition.
MaxSecrets == 2

Param(path, val, type) == [path |-> path, value |-> val, type |-> type]
HasParam(st, path) == \E q \in st : q.path = path
ParamAt(st, path) == CHOOSE q \in st : q.path = path

\* The switch on result.Parameter.Type: the remote type tag as a ParameterType.
MapRemoteType(tag) ==
    IF tag = StringType THEN StringType
    ELSE IF tag = StringListType THEN StringListType
    ELSE IF tag = SecureStringType THEN SecureStringType
    ELSE StringType

\* StorePut that leaves an existing parameter as it is.
StorePutKeepsExisting(st, path, val, type) ==
    IF \E q \in st : q.path = path THEN st ELSE st \cup { Param(path, val, type) }

\* client.PutParameter with Overwrite: the store after a successful put.
StorePut(st, path, val, type) == { q \in st : q.path # path } \cup { Param(path, val, type) }

S_string == <<"s","t","r","i","n","g">>
S_stringlist == <<"s","t","r","i","n","g","l","i","s","t">>
S_securestring == <<"s","e","c","u","r","e","s","t","r","i","n","g">>
FallbackPrefix == <<"/","p","r","e","p","r","o","d","/","t","e","s","t","i","n","g","/">>

\* The switch on strings.ToLower(string(secret.Type)) of PutParametersFromTemplate.
TemplateType(t) ==
    LET paramTypeStr == ToLower(t)
    IN  IF paramTypeStr = S_string THEN StringType
        ELSE IF paramTypeStr = S_stringlist THEN StringListType
        ELSE IF paramTypeStr = S_securestring THEN SecureStringType
        ELSE StringType

\* paramName of PutParametersFromTemplate: the extracted path, or the fallback.
TemplateParamName(sec) ==
    LET paramName == ExtractParameterName(sec.ValueFrom)
    IN  IF paramName = <<>> THEN FallbackPrefix \o ToLower(sec.Name) ELSE paramName

Container(ss) == [hasSecrets |-> TRUE, Secrets |-> ss]
\* container that is the last container definition of the file.
containerLast == taskDef[Len(taskDef)]
\* containerDefs[0] of GetParametersFromFile, taskDef.ContainerDefinitions[0] of
\* PutParametersFromTemplate.
container == taskDef[1]
secret == container.Secrets[bidx]

Call(op, item, path, val, ok) ==
    [op |-> op, item |-> item, path |-> path, value |-> val, ok |-> ok]
Printed(kind, item, text) == [kind |-> kind, item |-> item, text |-> text]

\* MapSet that keeps the value a name already has.
MapSetKeepsFirst(em, name, val) ==
    IF \E e \in em : e[1] = name THEN em ELSE em \cup { <<name, val>> }

\* envMap[name] = val
MapSet(em, name, val) == { e \in em : e[1] # name } \cup { <<name, val>> }

\* GetParametersFromFile: len(containerDefs) == 0.
GetFileNoContainers ==
    /\ bop = "get" /\ bpc = "start"
    /\ Len(taskDef) = 0
    /\ berr' = "no container definitions found"
    /\ bpc' = "error"
    /\ UNCHANGED <<bop, taskDef, outputPrefix, store, jsonMap, bidx, envMap, printed,
                   bsaved, outEnvFile, outJsonFile, calls, notBulk>>

\* GetParametersFromFile: containerDef["secrets"] is no array.
GetFileNoSecrets ==
    /\ bop = "get" /\ bpc = "start"
    /\ Len(taskDef) > 0
    /\ ~container.hasSecrets
    /\ berr' = "no secrets found"
    /\ bpc' = "error"
    /\ UNCHANGED <<bop, taskDef, outputPrefix, store, jsonMap, bidx, envMap, printed,
                   bsaved, outEnvFile, outJsonFile, calls, notBulk>>

\* GetParametersFromFile: the loop over containerDefs[0].secrets starts.
GetFileBegin ==
    /\ bop = "get" /\ bpc = "start"
    /\ Len(taskDef) > 0
    /\ container.hasSecrets
    /\ envMap' = {}
    /\ bidx' = 1
    /\ bpc' = "loop"
    /\ UNCHANGED <<bop, taskDef, outputPrefix, store, jsonMap, printed, berr,
                   bsaved, outEnvFile, outJsonFile, calls, notBulk>>

\* ExtractParameterName(valueFrom) == "": "Invalid ARN" is printed, continue.
GetItemInvalidArn ==
    /\ bop = "get" /\ bpc = "loop"
    /\ bidx <= Len(container.Secrets)
    /\ ExtractParameterName(secret.ValueFrom) = <<>>
    /\ printed' = Append(printed, Printed("invalid-arn", bidx, secret.ValueFrom))
    /\ bidx' = bidx + 1
    /\ UNCHANGED <<bop, taskDef, outputPrefix, store, jsonMap, bpc, envMap, berr,
                   bsaved, outEnvFile, outJsonFile, calls, notBulk>>

\* GetParameter returns an error: "Failed to get" is printed, continue.
GetItemFailed ==
    /\ bop = "get" /\ bpc = "loop"
    /\ bidx <= Len(container.Secrets)
    /\ LET paramName == ExtractParameterName(secret.ValueFrom)
       IN  /\ paramName # <<>>
           /\ ~HasParam(store, paramName)
           /\ calls' = Append(calls, Call("get", bidx, paramName, <<>>, FALSE))
    /\ printed' = Append(printed, Printed("failed", bidx, secret.Name))
    /\ bidx' = bidx + 1
    /\ UNCHANGED <<bop, taskDef, outputPrefix, store, jsonMap, bpc, envMap, berr,
                   bsaved, outEnvFile, outJsonFile, notBulk>>

\* The parameter is fetched: value and type are set in the JSON map; the value
\* goes to envMap with -o and is printed as NAME=value without.
GetItemFetched ==
    /\ bop = "get" /\ bpc = "loop"
    /\ bidx <= Len(container.Secrets)
    /\ LET paramName == ExtractParameterName(secret.ValueFrom)
       IN  /\ paramName # <<>>
           /\ HasParam(store, paramName)
           /\ LET val == ParamAt(store, paramName).value
                  typ == MapRemoteType(ParamAt(store, paramName).type)
              IN  /\ calls' = Append(calls, Call("get", bidx, paramName, val, TRUE))
                  /\ jsonMap' = [jsonMap EXCEPT ![1].Secrets[bidx].Value = val,
                                                ![1].Secrets[bidx].Type = typ]
                  /\ IF outputPrefix # <<>>
                     THEN /\ envMap' = MapSet(envMap, secret.Name, val)
                          /\ UNCHANGED printed
                     ELSE /\ printed' = Append(printed,
                                 Printed("value", bidx, secret.Name \o <<"=">> \o val))
                          /\ UNCHANGED envMap
    /\ bidx' = bidx + 1
    /\ UNCHANGED <<bop, taskDef, outputPrefix, store, bpc, berr,
                   bsaved, outEnvFile, outJsonFile, notBulk>>

\* The loop ends without -o: nothing is saved.
GetFileDone ==
    /\ bop = "get" /\ bpc = "loop"
    /\ bidx > Len(container.Secrets)
    /\ outputPrefix = <<>>
    /\ bpc' = "done"
    /\ UNCHANGED <<bop, taskDef, outputPrefix, store, jsonMap, bidx, envMap, printed, berr,
                   bsaved, outEnvFile, outJsonFile, calls, notBulk>>

\* The lines key=value\n of envMap in the order f.
RECURSIVE EnvText(_, _)
EnvText(f, k) ==
    IF k > Len(f) THEN <<>>
    ELSE f[k][1] \o <<"=">> \o f[k][2] \o <<"\n">> \o EnvText(f, k + 1)

\* The loop ends with -o: the dated .env file holds the lines of envMap, in the
\* order the map iteration yields them, the dated .json file the whole JSON map.
GetFileSave ==
    /\ bop = "get" /\ bpc = "loop"
    /\ bidx > Len(container.Secrets)
    /\ outputPrefix # <<>>
    /\ \E f \in [1..Cardinality(envMap) -> envMap] :
          /\ \A a \in DOMAIN f : \A b \in DOMAIN f : a # b => f[a] # f[b]
          /\ outEnvFile' = EnvText(f, 1)
    /\ outJsonFile' = jsonMap
    /\ bsaved' = TRUE
    /\ bpc' = "done"
    /\ UNCHANGED <<bop, taskDef, outputPrefix, store, jsonMap, bidx, envMap, printed, berr,
                   calls, notBulk>>

\* PutParametersFromTemplate: len(taskDef.ContainerDefinitions) == 0.
PutTemplateNoContainers ==
    /\ bop = "put" /\ bpc = "start"
    /\ Len(taskDef) = 0
    /\ berr' = "no container definitions found"
    /\ bpc' = "error"
    /\ UNCHANGED <<bop, taskDef, outputPrefix, store, jsonMap, bidx, envMap, printed,
                   bsaved, outEnvFile, outJsonFile, calls, notBulk>>

\* PutParametersFromTemplate: the loop over ContainerDefinitions[0].Secrets starts.
PutTemplateBegin ==
    /\ bop = "put" /\ bpc = "start"
    /\ Len(taskDef) > 0
    /\ bidx' = 1
    /\ bpc' = "loop"
    /\ UNCHANGED <<bop, taskDef, outputPrefix, store, jsonMap, envMap, printed, berr,
                   bsaved, outEnvFile, outJsonFile, calls, notBulk>>

\* secret.Value == "": "Skipping" is logged, continue.
PutItemSkipped ==
    /\ bop = "put" /\ bpc = "loop"
    /\ bidx <= Len(container.Secrets)
    /\ secret.Value = <<>>
    /\ printed' = Append(printed, Printed("skipping", bidx, secret.Name))
    /\ bidx' = bidx + 1
    /\ UNCHANGED <<bop, taskDef, outputPrefix, store, jsonMap, bpc, envMap, berr,
                   bsaved, outEnvFile, outJsonFile, calls, notBulk>>

\* PutParameter succeeds: the value is stored under paramName with the type.
PutItemStored ==
    /\ bop = "put" /\ bpc = "loop"
    /\ bidx <= Len(container.Secrets)
    /\ secret.Value # <<>>
    /\ store' = StorePut(store, TemplateParamName(secret), secret.Value, TemplateType(secret.Type))
    /\ calls' = Append(calls, Call("put", bidx, TemplateParamName(secret), secret.Value, TRUE))
    /\ printed' = Append(printed, Printed("put", bidx, TemplateParamName(secret)))
    /\ bidx' = bidx + 1
    /\ UNCHANGED <<bop, taskDef, outputPrefix, jsonMap, bpc, envMap, berr,
                   bsaved, outEnvFile, outJsonFile, notBulk>>

\* PutParameter returns an error: PutParametersFromTemplate returns it.
PutItemFailed ==
    /\ bop = "put" /\ bpc = "loop"
    /\ bidx <= Len(container.Secrets)
    /\ secret.Value # <<>>
    /\ calls' = Append(calls, Call("put", bidx, TemplateParamName(secret), secret.Value, FALSE))
    /\ berr' = "failed to put secret"
    /\ bpc' = "error"
    /\ UNCHANGED <<bop, taskDef, outputPrefix, store, jsonMap, bidx, envMap, printed,
                   bsaved, outEnvFile, outJsonFile, notBulk>>

\* The loop ends: PutParametersFromTemplate returns nil.
PutTemplateDone ==
    /\ bop = "put" /\ bpc = "loop"
    /\ bidx > Len(container.Secrets)
    /\ bpc' = "done"
    /\ UNCHANGED <<bop, taskDef, outputPrefix, store, jsonMap, bidx, envMap, printed, berr,
                   bsaved, outEnvFile, outJsonFile, calls, notBulk>>

N_A == <<"A">>
N_B == <<"B">>
PathA == <<"/","p","/","a">>
PathB == <<"/","p","/","b">>
ArnOf(path) ==
    <<"a","r","n",":","a","w","s",":","s","s","m",":","r",":","1",":","p","a","r","a","m","e","t","e","r">> \o path
S3Arn == <<"a","r","n",":","a","w","s",":","s","3",":","r",":","1",":","p","a","r","a","m","e","t","e","r","/","p","/","a">>
V_old == <<"o">>
V_v == <<"v">>
V_w == <<"w">>

\* The secrets a template or task definition file is made of.
BulkSecretPool ==
    { ExtendedSecret(N_A, ArnOf(PathA), SecureStringType, V_v),
      ExtendedSecret(N_B, PathB, S_securestring, V_w),
      ExtendedSecret(N_A, S3Arn, <<>>, V_w),
      ExtendedSecret(N_A, ArnOf(PathB), <<>>, <<>>),
      ExtendedSecret(N_B, ArnOf(PathB), StringListType, <<>>) }

ExtraContainer == Container(<<ExtendedSecret(N_B, ArnOf(PathB), StringType, V_w)>>)

SecretLists == UNION { [1..n -> BulkSecretPool] : n \in 0..MaxSecrets }

TaskDefs ==
    { <<>>, <<[hasSecrets |-> FALSE, Secrets |-> <<>>]>> }
    \cup { <<Container(l)>> : l \in SecretLists }
    \cup { <<Container(l), ExtraContainer>> : l \in { x \in SecretLists : Len(x) <= 1 } }

Stores ==
    { {},
      { Param(PathA, V_old, SecureStringType) },
      { Param(PathA, V_old, StringType), Param(PathB, V_w, <<"X">>) } }

S_env == <<"e","n","v">>

InitBulk ==
    /\ bop \in {"get", "put"}
    /\ taskDef \in TaskDefs
    /\ outputPrefix \in IF bop = "get" THEN { <<>>, S_env } ELSE { <<>> }
    /\ store \in Stores
    /\ jsonMap = taskDef
    /\ bidx = 0 /\ bpc = "start" /\ envMap = {} /\ printed = <<>> /\ berr = ""
    /\ bsaved = FALSE /\ outEnvFile = <<>> /\ outJsonFile = <<>> /\ calls = <<>>
    /\ OthersIdleBulk

NextBulk ==
    \/ GetFileNoContainers
    \/ GetFileNoSecrets
    \/ GetFileBegin
    \/ GetItemInvalidArn
    \/ GetItemFailed
    \/ GetItemFetched
    \/ GetFileDone
    \/ GetFileSave
    \/ PutTemplateNoContainers
    \/ PutTemplateBegin
    \/ PutItemSkipped
    \/ PutItemStored
    \/ PutItemFailed
    \/ PutTemplateDone

SpecBulk == InitBulk /\ [][NextBulk]_vars

---------------------------------------------------------------------------
(* Claims on the bulk operations *)

\* The path a valueFrom denotes: a bare path denotes itself, an SSM ARN the text
\* after its "parameter".
IsBarePath(v) == v # <<>> /\ v[1] = "/"
DenotesPath(v) == IsBarePath(v) \/ ValidArnShape(v)
DenotedPath(v) ==
    IF IsBarePath(v) THEN v
    ELSE SubSeq(v, NthColon(v, 5) + Len(S_parameterSlash), Len(v))

\* C7: for every secret whose valueFrom is an SSM ARN or a bare path, bulk get
\* fetches the path valueFrom denotes and put-from-template stores the secret's
\* value at that path.
C7_UsesDenotedPath ==
    (bpc \in {"loop", "done", "error"} /\ Len(taskDef) > 0) =>
        \A k \in DOMAIN container.Secrets :
            (k < bidx /\ DenotesPath(container.Secrets[k].ValueFrom)) =>
                /\ bop = "get" =>
                      \E c \in DOMAIN calls :
                          /\ calls[c].op = "get" /\ calls[c].item = k
                          /\ calls[c].path = DenotedPath(container.Secrets[k].ValueFrom)
                /\ (bop = "put" /\ container.Secrets[k].Value # <<>>) =>
                      \E c \in DOMAIN calls :
                          /\ calls[c].op = "put" /\ calls[c].item = k
                          /\ calls[c].path = DenotedPath(container.Secrets[k].ValueFrom)
                          /\ calls[c].value = container.Secrets[k].Value

---------------------------------------------------------------------------
(* GetParametersByPrefix.  The collaborator answers each GetParametersByPath   *)
(* request with a page of parameters and a continuation token (0 is nil), or   *)
(* with an error.                                                              *)

\* The greatest number of parameters the store returns over all pages.
MaxParams == 2
\* The greatest number of list requests of one run.
MaxPages == 3
\* MaxResults of GetParametersByPathInput: the greatest size of a page.
MaxResults == 10

\* strings.TrimPrefix(name, prefix), and the full name when nothing was removed.
StripKey(name, pfx) ==
    LET k == TrimPrefix(name, pfx)
    IN  IF k = name THEN name ELSE k

\* The switch on param.Type: an unrecognized tag becomes String.
PrefixParamType(tag) ==
    IF tag = StringType THEN StringType
    ELSE IF tag = StringListType THEN StringListType
    ELSE IF tag = SecureStringType THEN SecureStringType
    ELSE StringType

\* SecretOfParam with the stripped key as valueFrom.
SecretOfParamKeyAsValueFrom(param, pfx) ==
    ExtendedSecret(StripKey(param.path, pfx), StripKey(param.path, pfx),
                   PrefixParamType(param.type), param.value)

\* The ExtendedSecret made of one returned parameter.
SecretOfParam(param, pfx) ==
    ExtendedSecret(StripKey(param.path, pfx), param.path, PrefixParamType(param.type), param.value)

\* fmt.Sprintf("%s=%s\n", key, value)
EnvLineOfParam(param, pfx) == StripKey(param.path, pfx) \o <<"=">> \o param.value \o <<"\n">>

\* The loop over result.Parameters: what it appends to envContent and to secrets.
RECURSIVE PageEnv(_, _)
PageEnv(params, pfx) ==
    IF params = <<>> THEN <<>>
    ELSE EnvLineOfParam(Head(params), pfx) \o PageEnv(Tail(params), pfx)
RECURSIVE PageSecrets(_, _)
PageSecrets(params, pfx) ==
    IF params = <<>> THEN <<>>
    ELSE <<SecretOfParam(Head(params), pfx)>> \o PageSecrets(Tail(params), pfx)

\* The parameters the store may return: under the queried prefix, equal to it,
\* outside it, with each type tag and an unrecognized one.
RemoteParams ==
    { Param(<<"/","p","/","A">>, <<"v">>, SecureStringType),
      Param(<<"/","p","/","A">>, <<"w">>, StringType),
      Param(<<"/","p","/">>, <<"v">>, StringListType),
      Param(<<"/","q","/","A">>, <<"v">>, <<"X">>) }
QueryPrefixes == { <<"/","p","/">>, <<"/","p">> }

\* The pages the collaborator may answer with when it has returned n parameters.
Pages(n) ==
    UNION { [1..m -> RemoteParams] :
              m \in 0..(IF MaxParams - n < MaxResults THEN MaxParams - n ELSE MaxResults) }

\* The continuation tokens the collaborator answers with; 0 is nil.
PageTokens == {1, 2}

\* The answer to one list request: ok with a page and a token, or an error.
Reply(ok, token, params) == [ok |-> ok, token |-> token, params |-> params]

\* client.GetParametersByPath is called with the current nextToken.
SendRequest ==
    /\ ppc = "request"
    /\ requests' = Append(requests, nextToken)
    /\ ppc' = "await"
    /\ UNCHANGED <<qprefix, nextToken, envContent, psecrets, perr, returned, replies,
                   outEnv, outJsonP, notPrefix>>

\* FetchPageMore that keeps the token it had sent.
FetchPageMoreKeepsToken ==
    /\ ppc = "await"
    /\ Len(requests) < MaxPages
    /\ \E page \in Pages(Len(returned)) : \E tok \in PageTokens :
          /\ returned' = returned \o page
          /\ envContent' = envContent \o PageEnv(page, qprefix)
          /\ psecrets' = psecrets \o PageSecrets(page, qprefix)
          /\ replies' = Append(replies, Reply(TRUE, tok, page))
    /\ ppc' = "request"
    /\ UNCHANGED <<qprefix, nextToken, requests, perr, outEnv, outJsonP, notPrefix>>

\* A page with a continuation token: its parameters are processed, the token
\* becomes nextToken and the loop goes on.
FetchPageMore ==
    /\ ppc = "await"
    /\ Len(requests) < MaxPages
    /\ \E page \in Pages(Len(returned)) : \E tok \in PageTokens :
          /\ returned' = returned \o page
          /\ envContent' = envContent \o PageEnv(page, qprefix)
          /\ psecrets' = psecrets \o PageSecrets(page, qprefix)
          /\ replies' = Append(replies, Reply(TRUE, tok, page))
          /\ nextToken' = tok
    /\ ppc' = "request"
    /\ UNCHANGED <<qprefix, requests, perr, outEnv, outJsonP, notPrefix>>

\* A page with no continuation token: its parameters are processed, break.
FetchLastPage ==
    /\ ppc = "await"
    /\ \E page \in Pages(Len(returned)) :
          /\ returned' = returned \o page
          /\ envContent' = envContent \o PageEnv(page, qprefix)
          /\ psecrets' = psecrets \o PageSecrets(page, qprefix)
          /\ replies' = Append(replies, Reply(TRUE, 0, page))
    /\ ppc' = "write-env"
    /\ UNCHANGED <<qprefix, nextToken, requests, perr, outEnv, outJsonP, notPrefix>>

\* FetchFailed that saves the lines collected so far.
FetchFailedWritesEnv ==
    /\ ppc = "await"
    /\ replies' = Append(replies, Reply(FALSE, 0, <<>>))
    /\ perr' = "remote"
    /\ ppc' = "error"
    /\ outEnv' = [written |-> TRUE, text |-> envContent]
    /\ UNCHANGED <<qprefix, nextToken, envContent, psecrets, returned, requests,
                   outJsonP, notPrefix>>

\* client.GetParametersByPath returns an error: GetParametersByPrefix returns it.
FetchFailed ==
    /\ ppc = "await"
    /\ replies' = Append(replies, Reply(FALSE, 0, <<>>))
    /\ perr' = "remote"
    /\ ppc' = "error"
    /\ UNCHANGED <<qprefix, nextToken, envContent, psecrets, returned, requests,
                   outEnv, outJsonP, notPrefix>>

\* os.WriteFile(outputBase + ".env", envContent)
WriteEnvFile ==
    /\ ppc = "write-env"
    /\ outEnv' = [written |-> TRUE, text |-> envContent]
    /\ ppc' = "write-json"
    /\ UNCHANGED <<qprefix, nextToken, envContent, psecrets, perr, returned, requests, replies, outJsonP, notPrefix>>

\* os.WriteFile of the .env file fails: the error is returned.
WriteEnvFailed ==
    /\ ppc = "write-env"
    /\ perr' = "failed to write .env file"
    /\ ppc' = "error"
    /\ UNCHANGED <<qprefix, nextToken, envContent, psecrets, returned, requests, replies, outEnv, outJsonP, notPrefix>>

\* The task definition with the one container is marshalled and written.
WriteJsonFile ==
    /\ ppc = "write-json"
    /\ outJsonP' = [written |-> TRUE, containerDefinitions |-> <<Container(psecrets)>>]
    /\ ppc' = "done"
    /\ UNCHANGED <<qprefix, nextToken, envContent, psecrets, perr, returned, requests, replies, outEnv, notPrefix>>

\* os.WriteFile of the .json file fails: the error is returned.
WriteJsonFailed ==
    /\ ppc = "write-json"
    /\ perr' = "failed to write JSON file"
    /\ ppc' = "error"
    /\ UNCHANGED <<qprefix, nextToken, envContent, psecrets, returned, requests, replies, outEnv, outJsonP, notPrefix>>

InitPrefix ==
    /\ qprefix \in QueryPrefixes
    /\ nextToken = 0
    /\ envContent = <<>> /\ psecrets = <<>>
    /\ ppc = "request" /\ perr = ""
    /\ returned = <<>> /\ requests = <<>> /\ replies = <<>>
    /\ outEnv = [written |-> FALSE, text |-> <<>>]
    /\ outJsonP = [written |-> FALSE, containerDefinitions |-> <<>>]
    /\ OthersIdlePrefix

NextPrefix ==
    \/ SendRequest
    \/ FetchPageMore
    \/ FetchLastPage
    \/ FetchFailed
    \/ WriteEnvFile
    \/ WriteEnvFailed
    \/ WriteJsonFile
    \/ WriteJsonFailed

SpecPrefix == InitPrefix /\ [][NextPrefix]_vars

\* Every call of the loop returns and every statement after it is executed.
SpecPrefixLive == SpecPrefix /\ WF_vars(NextPrefix)

---------------------------------------------------------------------------
(* Claims on GetParametersByPrefix *)

StartsWith(s, p) == Len(s) >= Len(p) /\ \A m \in 1..Len(p) : s[m] = p[m]
\* The full path with the prefix removed from its front, or unchanged.
ExpectedKey(name, pfx) ==
    IF StartsWith(name, pfx) THEN [m \in 1..(Len(name) - Len(pfx)) |-> name[m + Len(pfx)]]
    ELSE name
ExpectedType(tag) ==
    IF tag \in {StringType, StringListType, SecureStringType} THEN tag ELSE StringType
RECURSIVE ExpectedEnv(_)
ExpectedEnv(ps) ==
    IF ps = <<>> THEN <<>>
    ELSE ExpectedKey(ps[1].path, qprefix) \o <<"=">> \o ps[1].value \o <<"\n">>
         \o ExpectedEnv(Tail(ps))

\* C10: every returned parameter gives one .env line key=value and one secret
\* whose name is the key (the path without the queried prefix when it starts with
\* it, the full path otherwise), whose valueFrom is the full path and whose value
\* and type are the store's, an unrecognized type tag becoming String.
C10_PrefixMapping ==
    /\ Len(psecrets) = Len(returned)
    /\ \A k \in DOMAIN returned :
          /\ psecrets[k].Name = ExpectedKey(returned[k].path, qprefix)
          /\ psecrets[k].ValueFrom = returned[k].path
          /\ psecrets[k].Value = returned[k].value
          /\ psecrets[k].Type = ExpectedType(returned[k].type)
    /\ envContent = ExpectedEnv(returned)
    /\ outEnv.written => outEnv.text = envContent
    /\ outJsonP.written => outJsonP.containerDefinitions[1].Secrets = psecrets

\* Both files were written for a parameter under the prefix and one outside it
\* with an unrecognized type tag.
C10_Witness ==
    /\ ppc = "done"
    /\ outEnv.written /\ outJsonP.written
    /\ \E a \in DOMAIN returned : \E b \in DOMAIN returned :
          /\ StartsWith(returned[a].path, qprefix) /\ Len(returned[a].path) > Len(qprefix)
          /\ ~StartsWith(returned[b].path, qprefix)
          /\ returned[b].type = <<"X">>

\* The parameters of the pages answered so far, page after page.
RECURSIVE FetchedParams(_)
FetchedParams(rs) ==
    IF rs = <<>> THEN <<>> ELSE Head(rs).params \o FetchedParams(Tail(rs))

PrefixTerminated == ppc \in {"done", "error"}

\* The token protocol, the single outstanding request and the output on success.
PaginationProtocol ==
    /\ Len(requests) - Len(replies) \in {0, 1}
    /\ \A k \in DOMAIN requests :
          IF k = 1 THEN requests[k] = 0
          ELSE /\ replies[k - 1].ok
               /\ replies[k - 1].token # 0
               /\ requests[k] = replies[k - 1].token
    /\ \A k \in DOMAIN replies :
          (replies[k].ok /\ replies[k].token = 0) =>
              /\ k = Len(requests)
              /\ ppc \in {"write-env", "write-json", "done", "error"}
    /\ ppc = "done" =>
          LET all == FetchedParams(replies)
              out == outJsonP.containerDefinitions[1].Secrets
          IN  /\ Len(out) = Len(all)
              /\ \A k \in DOMAIN all :
                    out[k].ValueFrom = all[k].path /\ out[k].Value = all[k].value
              /\ outEnv.text = ExpectedEnv(all)

\* C11: the first list request carries no token, every later one the token of
\* the page before it, at most one request is outstanding, the loop stops at the
\* first page without a token, on success the output holds every parameter of
\* every page once and in order, and the operation terminates once the
\* collaborator has answered with a page without a token.
C11_PaginationProtocol == []PaginationProtocol /\ <>PrefixTerminated

\* Three pages were fetched with two different tokens, parameters came on more
\* than one page, and both files were written.
C11_Witness ==
    /\ ppc = "done"
    /\ Len(requests) = 3
    /\ requests[2] # requests[3]
    /\ \E a \in DOMAIN replies : \E b \in DOMAIN replies :
          a # b /\ replies[a].params # <<>> /\ replies[b].params # <<>>

\* C19: when a page request fails, on the first page or after successful pages,
\* the operation returns that error and writes neither file; both files are
\* written only after the last page was fetched, the .env file before the JSON
\* file.
C19_AllOrNothing ==
    /\ (\E k \in DOMAIN replies : ~replies[k].ok) =>
          /\ ppc = "error" /\ perr = "remote"
          /\ ~outEnv.written /\ ~outJsonP.written
    /\ outEnv.written =>
          /\ replies # <<>>
          /\ Len(replies) = Len(requests)
          /\ replies[Len(replies)].ok /\ replies[Len(replies)].token = 0
    /\ outJsonP.written => outEnv.written

\* A page request failed after a page that had brought parameters.
C19_Witness ==
    /\ ppc = "error" /\ perr = "remote"
    /\ Len(replies) >= 2
    /\ returned # <<>>
    /\ envContent # <<>>

---------------------------------------------------------------------------
(* Claims on the bulk operations *)

\* Item k failed: its ARN was reported invalid or its remote call failed.
ItemFailed(k) ==
    \/ \E c \in DOMAIN calls : calls[c].item = k /\ ~calls[c].ok
    \/ \E q \in DOMAIN printed : printed[q].item = k /\ printed[q].kind = "invalid-arn"
\* Item k was handled: a remote call was made for it or a message printed.
ItemProcessed(k) ==
    \/ \E c \in DOMAIN calls : calls[c].item = k
    \/ \E q \in DOMAIN printed : printed[q].item = k
ItemFailureTolerated ==
    Len(taskDef) > 0 =>
        \A k \in DOMAIN container.Secrets :
            ItemFailed(k) =>
                /\ bpc \in {"loop", "done"}
                /\ berr = ""
                /\ bpc = "done" => \A n \in DOMAIN container.Secrets : n > k => ItemProcessed(n)

\* C12: in bulk get and in put-from-template a failure on one item (invalid
\* ARN, failed remote call) does not abort the batch: the items after it are
\* still processed and the operation returns no error because of it.
C12_ItemFailureDoesNotAbort == ItemFailureTolerated

---------------------------------------------------------------------------
(* main and LoadConfig.  config.json is a file that may be absent, unreadable, *)
(* malformed, or a JSON object holding some of the two fields; reading and     *)
(* writing it may fail.  The operations main hands over to are summarized by   *)
(* whether they talked to the parameter store and whether they returned an     *)
(* error.                                                                      *)

DefaultParameterPrefix == <<"/","p","r","e","p","r","o","d","/","t","e","s","t","i","n","g","/">>
DefaultRegion == <<"a","p","-","s","o","u","t","h","e","a","s","t","-","3">>

\* config := &Config{ParameterPrefix: "/preprod/testing/", Region: "ap-southeast-3"}
DefaultConfig == [ParameterPrefix |-> DefaultParameterPrefix, Region |-> DefaultRegion]
NilConfig == [ParameterPrefix |-> <<>>, Region |-> <<>>]

\* A config.json: the fields of its JSON object as pairs <<name, value>>.
ConfigFile(exists, readable, valid, fields) ==
    [exists |-> exists, readable |-> readable, valid |-> valid, fields |-> fields]

HasField(f, n) == \E e \in f.fields : e[1] = n
FieldOf(f, n) == (CHOOSE e \in f.fields : e[1] = n)[2]

\* json.Unmarshal(data, config): a field of the file replaces the default.
Unmarshal(f, config) ==
    [ParameterPrefix |-> IF HasField(f, "parameterPrefix") THEN FieldOf(f, "parameterPrefix")
                         ELSE config.ParameterPrefix,
     Region |-> IF HasField(f, "region") THEN FieldOf(f, "region") ELSE config.Region]

\* json.MarshalIndent(config): the file with both fields.
MarshalConfig(config) ==
    ConfigFile(TRUE, TRUE, TRUE,
               { <<"parameterPrefix", config.ParameterPrefix>>, <<"region", config.Region>> })

\* os.ReadFile("config.json") returns an error.
ReadFails(f) == ~f.exists \/ ~f.readable

\* *region after "if *region == "" { *region = toolConfig.Region }".
EffectiveRegion(flagRegion, config) == IF flagRegion = <<>> THEN config.Region ELSE flagRegion

\* os.Exit(code), log.Fatalf (code 1) or return from main (code 0).
Exit(code, msg) ==
    /\ mpc' = "exit"
    /\ exitCode' = code
    /\ mmsg' = msg

\* if *helpFlag { showHelp(*action); return }
ShowHelp ==
    /\ mpc = "start"
    /\ flags.h
    /\ Exit(0, "help")
    /\ UNCHANGED <<flags, mrun, mremote, configFile, configFile0, toolConfig, region, notMain>>

\* LoadConfig: ReadFile fails, the defaults are written and returned.
LoadConfigCreated ==
    /\ mpc = "start"
    /\ ~flags.h
    /\ ReadFails(configFile)
    /\ configFile' = MarshalConfig(DefaultConfig)
    /\ toolConfig' = DefaultConfig
    /\ region' = EffectiveRegion(flags.region, DefaultConfig)
    /\ mpc' = "loaded"
    /\ UNCHANGED <<flags, exitCode, mrun, mremote, mmsg, configFile0, notMain>>

\* LoadConfig: ReadFile fails and WriteFile fails: log.Fatalf.
LoadConfigCreateFailed ==
    /\ mpc = "start"
    /\ ~flags.h
    /\ ReadFails(configFile)
    /\ Exit(1, "Failed to load config")
    /\ UNCHANGED <<flags, mrun, mremote, configFile, configFile0, toolConfig, region, notMain>>

\* LoadConfig: the file is read and parsed over the defaults.
LoadConfigParsed ==
    /\ mpc = "start"
    /\ ~flags.h
    /\ ~ReadFails(configFile)
    /\ configFile.valid
    /\ toolConfig' = Unmarshal(configFile, DefaultConfig)
    /\ region' = EffectiveRegion(flags.region, Unmarshal(configFile, DefaultConfig))
    /\ mpc' = "loaded"
    /\ UNCHANGED <<flags, exitCode, mrun, mremote, mmsg, configFile, configFile0, notMain>>

\* LoadConfig: json.Unmarshal fails: log.Fatalf.
LoadConfigMalformed ==
    /\ mpc = "start"
    /\ ~flags.h
    /\ ~ReadFails(configFile)
    /\ ~configFile.valid
    /\ Exit(1, "Failed to load config")
    /\ UNCHANGED <<flags, mrun, mremote, configFile, configFile0, toolConfig, region, notMain>>

\* action generate without -s or -o.
GenerateUsage ==
    /\ mpc = "loaded"
    /\ flags.action = "generate"
    /\ flags.s = "" \/ flags.o = ""
    /\ Exit(1, "usage")
    /\ UNCHANGED <<flags, mrun, mremote, configFile, configFile0, toolConfig, region, notMain>>

\* GenerateTaskDefFromEnv is run; it makes no remote call.
RunGenerate ==
    /\ mpc = "loaded"
    /\ flags.action = "generate"
    /\ flags.s # "" /\ flags.o # ""
    /\ mrun' = "generate"
    /\ \E ok \in BOOLEAN : IF ok THEN Exit(0, "") ELSE Exit(1, "failed")
    /\ UNCHANGED <<flags, mremote, configFile, configFile0, toolConfig, region, notMain>>

\* config.LoadDefaultConfig succeeds and the SSM client is made.
NewClient ==
    /\ mpc = "loaded"
    /\ flags.action # "generate"
    /\ mpc' = "client"
    /\ UNCHANGED <<flags, exitCode, mrun, mremote, mmsg, configFile, configFile0, toolConfig,
                   region, notMain>>

\* config.LoadDefaultConfig fails: log.Fatalf.
NewClientFailed ==
    /\ mpc = "loaded"
    /\ flags.action # "generate"
    /\ Exit(1, "Unable to load SDK config")
    /\ UNCHANGED <<flags, mrun, mremote, configFile, configFile0, toolConfig, region, notMain>>

\* action put-from-template without -s.
PutFromTemplateUsage ==
    /\ mpc = "client"
    /\ flags.action = "put-from-template"
    /\ flags.s = ""
    /\ Exit(1, "usage")
    /\ UNCHANGED <<flags, mrun, mremote, configFile, configFile0, toolConfig, region, notMain>>

\* PutParametersFromTemplate is run.
RunPutFromTemplate ==
    /\ mpc = "client"
    /\ flags.action = "put-from-template"
    /\ flags.s # ""
    /\ mrun' = "put-from-template"
    /\ \E called \in BOOLEAN : mremote' = called
    /\ \E ok \in BOOLEAN : IF ok THEN Exit(0, "") ELSE Exit(1, "failed")
    /\ UNCHANGED <<flags, configFile, configFile0, toolConfig, region, notMain>>

\* if *sourceFile != "": GetParametersFromFile is run, whatever the action.
RunGetFromFile ==
    /\ mpc = "client"
    /\ flags.action # "put-from-template"
    /\ flags.s # ""
    /\ mrun' = "get-from-file"
    /\ \E called \in BOOLEAN : mremote' = called
    /\ \E ok \in BOOLEAN : IF ok THEN Exit(0, "") ELSE Exit(1, "failed")
    /\ UNCHANGED <<flags, configFile, configFile0, toolConfig, region, notMain>>

\* The flags have passed the three early branches.
Validating ==
    /\ mpc = "client"
    /\ flags.action # "put-from-template"
    /\ flags.s = ""

\* if *action == "": the usage text.
UsageNoAction ==
    /\ Validating
    /\ flags.action = ""
    /\ Exit(1, "usage")
    /\ UNCHANGED <<flags, mrun, mremote, configFile, configFile0, toolConfig, region, notMain>>

\* get or put without -name.
UsageNameMissing ==
    /\ Validating
    /\ flags.action \in {"get", "put"}
    /\ flags.name = ""
    /\ Exit(1, "usage")
    /\ UNCHANGED <<flags, mrun, mremote, configFile, configFile0, toolConfig, region, notMain>>

\* put without -value.
UsageValueMissing ==
    /\ Validating
    /\ flags.action = "put"
    /\ flags.name # ""
    /\ flags.value = ""
    /\ Exit(1, "usage")
    /\ UNCHANGED <<flags, mrun, mremote, configFile, configFile0, toolConfig, region, notMain>>

\* get-by-prefix without -prefix or -o.
UsagePrefixMissing ==
    /\ Validating
    /\ flags.action = "get-by-prefix"
    /\ flags.prefix = "" \/ flags.o = ""
    /\ Exit(1, "usage")
    /\ UNCHANGED <<flags, mrun, mremote, configFile, configFile0, toolConfig, region, notMain>>

\* case "get": GetParameter is run.
RunGet ==
    /\ Validating
    /\ flags.action = "get"
    /\ flags.name # ""
    /\ mrun' = "get"
    /\ mremote' = TRUE
    /\ \E ok \in BOOLEAN : IF ok THEN Exit(0, "") ELSE Exit(1, "failed")
    /\ UNCHANGED <<flags, configFile, configFile0, toolConfig, region, notMain>>

\* case "get-by-prefix": GetParametersByPrefix is run.
RunGetByPrefix ==
    /\ Validating
    /\ flags.action = "get-by-prefix"
    /\ flags.prefix # "" /\ flags.o # ""
    /\ mrun' = "get-by-prefix"
    /\ mremote' = TRUE
    /\ \E ok \in BOOLEAN : IF ok THEN Exit(0, "") ELSE Exit(1, "failed")
    /\ UNCHANGED <<flags, configFile, configFile0, toolConfig, region, notMain>>

\* validTypes[strings.ToLower(*paramType)]
ValidType(t) == ToLower(t) \in {S_string, S_stringlist, S_securestring}

\* case "put": the type is not one of the three.
PutInvalidType ==
    /\ Validating
    /\ flags.action = "put"
    /\ flags.name # "" /\ flags.value # ""
    /\ ~ValidType(flags.type)
    /\ Exit(1, "usage")
    /\ UNCHANGED <<flags, mrun, mremote, configFile, configFile0, toolConfig, region, notMain>>

\* case "put": PutParameter is run.
RunPut ==
    /\ Validating
    /\ flags.action = "put"
    /\ flags.name # "" /\ flags.value # ""
    /\ ValidType(flags.type)
    /\ mrun' = "put"
    /\ mremote' = TRUE
    /\ \E ok \in BOOLEAN : IF ok THEN Exit(0, "") ELSE Exit(1, "failed")
    /\ UNCHANGED <<flags, configFile, configFile0, toolConfig, region, notMain>>

RecognizedActions == {"get", "put", "put-from-template", "generate", "get-by-prefix"}

\* default: "Invalid action".
InvalidAction ==
    /\ Validating
    /\ flags.action # ""
    /\ flags.action \notin RecognizedActions
    /\ Exit(1, "usage")
    /\ UNCHANGED <<flags, mrun, mremote, configFile, configFile0, toolConfig, region, notMain>>

\* The command lines: each string flag absent ("") or given.
FlagSets ==
    [action : RecognizedActions \cup {"", "delete"},
     name : {"", "n"}, value : {"", "v"}, s : {"", "f"}, o : {"", "o"}, prefix : {"", "p"},
     type : {S_string, SecureStringType, <<"b","o","o","l">>},
     region : {<<>>, <<"u","s">>},
     h : BOOLEAN]

\* The config.json files found at the start.
ConfigFiles ==
    { ConfigFile(FALSE, FALSE, FALSE, {}), ConfigFile(TRUE, TRUE, FALSE, {}) }
    \cup { ConfigFile(TRUE, r, TRUE, fp \cup fr) :
             r \in BOOLEAN,
             fp \in { {}, { <<"parameterPrefix", <<"/","x","/">>>> } },
             fr \in { {}, { <<"region", <<"e","u">>>> } } }

InitMain ==
    /\ flags \in FlagSets
    /\ configFile \in ConfigFiles
    /\ configFile0 = configFile
    /\ mpc = "start" /\ exitCode = -1 /\ mrun = "" /\ mremote = FALSE /\ mmsg = ""
    /\ toolConfig = NilConfig
    /\ region = flags.region
    /\ OthersIdleMain

NextMain ==
    \/ ShowHelp
    \/ LoadConfigCreated
    \/ LoadConfigCreateFailed
    \/ LoadConfigParsed
    \/ LoadConfigMalformed
    \/ GenerateUsage
    \/ RunGenerate
    \/ NewClient
    \/ NewClientFailed
    \/ PutFromTemplateUsage
    \/ RunPutFromTemplate
    \/ RunGetFromFile
    \/ UsageNoAction
    \/ UsageNameMissing
    \/ UsageValueMissing
    \/ UsagePrefixMissing
    \/ RunGet
    \/ RunGetByPrefix
    \/ PutInvalidType
    \/ RunPut
    \/ InvalidAction

SpecMain == InitMain /\ [][NextMain]_vars

---------------------------------------------------------------------------
(* Claims on main and LoadConfig *)

\* The flags lack a combination the selected action requires, or an action is
\* given that is none of the five.
UsageError(f) ==
    \/ f.action \in {"get", "put"} /\ f.name = ""
    \/ f.action = "put" /\ f.value = ""
    \/ f.action = "generate" /\ (f.s = "" \/ f.o = "")
    \/ f.action = "put-from-template" /\ f.s = ""
    \/ f.action = "get-by-prefix" /\ (f.prefix = "" \/ f.o = "")
    \/ f.action # "" /\ f.action \notin {"get", "put", "put-from-template", "generate", "get-by-prefix"}

\* C13: an invocation (that does not ask for help with -h) whose flags lack a
\* required combination, or whose action is not recognized, exits with code 1
\* without any remote parameter-store call, whatever other flags, -s included,
\* are given.
C13_UsageErrorBeforeRemoteCall ==
    (UsageError(flags) /\ ~flags.h /\ mpc = "exit") =>
        /\ exitCode = 1
        /\ ~mremote

\* LoadConfig has returned, with or without an error.
LoadConfigReturned == mpc \in {"loaded", "client"} \/ (mpc = "exit" /\ ~flags.h)
LoadConfigError == mpc = "exit" /\ mmsg = "Failed to load config"

\* The field of the file, or the default when the file does not have it.
FieldOrDefault(f, n, d) == IF \E e \in f.fields : e[1] = n THEN FieldOf(f, n) ELSE d

ConfigLoading ==
    LoadConfigReturned =>
        /\ ~configFile0.exists =>
              \/ LoadConfigError /\ configFile = configFile0
              \/ /\ ~LoadConfigError
                 /\ configFile.exists /\ configFile.valid
                 /\ configFile.fields = { <<"parameterPrefix", DefaultParameterPrefix>>,
                                          <<"region", DefaultRegion>> }
                 /\ toolConfig.ParameterPrefix = DefaultParameterPrefix
                 /\ toolConfig.Region = DefaultRegion
        /\ (configFile0.exists /\ configFile0.valid) =>
              /\ ~LoadConfigError
              /\ configFile = configFile0
              /\ toolConfig.ParameterPrefix =
                     FieldOrDefault(configFile0, "parameterPrefix", DefaultParameterPrefix)
              /\ toolConfig.Region = FieldOrDefault(configFile0, "region", DefaultRegion)
        /\ (configFile0.exists /\ ~configFile0.valid) =>
              /\ LoadConfigError
              /\ configFile = configFile0
        /\ (~LoadConfigError /\ flags.region # <<>>) => region = flags.region
        /\ (~LoadConfigError /\ flags.region = <<>>) => region = toolConfig.Region

\* C16: an absent config.json is created with the defaults, which are returned
\* (or, when it cannot be written, an error is); a present and valid one is left
\* unchanged and its contents returned, a missing field keeping its default; a
\* malformed one gives an error and is left unchanged; a given -region flag
\* takes precedence over the configured region.
C16_ConfigLoading == ConfigLoading

---------------------------------------------------------------------------
(* The operations that read or write a task-definition document, together:     *)
(* generate, bulk get, put-from-template and get-by-prefix.                    *)

InitDocuments == InitEnv \/ InitBulk \/ InitPrefix
NextDocuments == NextEnv \/ NextBulk \/ NextPrefix
SpecDocuments == InitDocuments /\ [][NextDocuments]_vars

\* Every remote call of a bulk operation is for a secret of containerDefinitions[0].
CallsFromFirstContainer ==
    \A c \in DOMAIN calls :
        /\ Len(taskDef) > 0
        /\ calls[c].item \in DOMAIN taskDef[1].Secrets
        /\ LET sec == taskDef[1].Secrets[calls[c].item]
           IN  IF calls[c].op = "get"
               THEN calls[c].path = ExtractParameterName(sec.ValueFrom)
               ELSE /\ calls[c].value = sec.Value
                    /\ calls[c].path \in {ExtractParameterName(sec.ValueFrom),
                                           FallbackPrefix \o ToLower(sec.Name)}

\* The documents of generate and get-by-prefix hold one container definition.
WrittenOneContainer ==
    /\ pc = "done" => Len(outJson.containerDefinitions) = 1
    /\ outJsonP.written => Len(outJsonP.containerDefinitions) = 1

\* C14 as stated: bulk get and put-from-template take secrets only from
\* containerDefinitions[0], and every JSON document written, the dated JSON of
\* bulk get with -o included, holds exactly one container definition.
C14_OnlyFirstContainer ==
    /\ CallsFromFirstContainer
    /\ WrittenOneContainer
    /\ bsaved => Len(outJsonFile) = 1

\* C14 amended: bulk get and put-from-template take secrets only from
\* containerDefinitions[0]; generate and get-by-prefix write exactly one
\* container definition; the dated JSON of bulk get with -o is the input
\* document with value and type set in the first container's secrets, every
\* further container of the input kept as it was.
C14_FirstContainerReadInputKept ==
    /\ CallsFromFirstContainer
    /\ WrittenOneContainer
    /\ bsaved =>
          /\ Len(outJsonFile) = Len(taskDef)
          /\ \A k \in DOMAIN taskDef : k > 1 => outJsonFile[k] = taskDef[k]
          /\ Len(outJsonFile[1].Secrets) = Len(taskDef[1].Secrets)
          /\ \A k \in DOMAIN taskDef[1].Secrets :
                /\ outJsonFile[1].Secrets[k].Name = taskDef[1].Secrets[k].Name
                /\ outJsonFile[1].Secrets[k].ValueFrom = taskDef[1].Secrets[k].ValueFrom

\* Bulk get with -o saved a file of two containers after fetching a secret of
\* the first one.
C14_Witness ==
    /\ bop = "get" /\ bsaved
    /\ Len(taskDef) = 2
    /\ \E c \in DOMAIN calls : calls[c].ok

---------------------------------------------------------------------------
(* PutParameter and GetParameter against a stub store that keeps, for each     *)
(* path, what the last put stored.                                             *)

\* The greatest number of PutParameter calls.
MaxPuts == 3

StorePaths == {PathA, PathB}
StoreValues == {V_v, V_w}
StoreTypes == {StringType, StringListType, SecureStringType}

\* PutParameter(client, name, value, paramType) returns nil.
PutParameter ==
    /\ Len(sputs) < MaxPuts
    /\ \E name \in StorePaths : \E val \in StoreValues : \E paramType \in StoreTypes :
          /\ sstore' = StorePut(sstore, name, val, paramType)
          /\ sputs' = Append(sputs, Param(name, val, paramType))
    /\ UNCHANGED <<sgot, notStore>>

\* GetParameter(client, name) returns the value and the mapped type.
GetParameterFound ==
    /\ \E name \in StorePaths :
          /\ HasParam(sstore, name)
          /\ sgot' = [done |-> TRUE, ok |-> TRUE, path |-> name,
                      value |-> ParamAt(sstore, name).value,
                      type |-> MapRemoteType(ParamAt(sstore, name).type),
                      at |-> Len(sputs)]
    /\ UNCHANGED <<sstore, sputs, notStore>>

\* GetParameter(client, name) returns "", "", err.
GetParameterError ==
    /\ \E name \in StorePaths :
          /\ ~HasParam(sstore, name)
          /\ sgot' = [done |-> TRUE, ok |-> FALSE, path |-> name, value |-> <<>>, type |-> <<>>,
                      at |-> Len(sputs)]
    /\ UNCHANGED <<sstore, sputs, notStore>>

InitStore ==
    /\ sstore = {} /\ sputs = <<>>
    /\ sgot = [done |-> FALSE, ok |-> FALSE, path |-> <<>>, value |-> <<>>, type |-> <<>>, at |-> 0]
    /\ OthersIdleStore

NextStore ==
    \/ PutParameter
    \/ GetParameterFound
    \/ GetParameterError

SpecStore == InitStore /\ [][NextStore]_vars

\* The puts on a path among the first n puts, by their positions.
PutsOn(path, n) == { k \in 1..n : sputs[k].path = path }
LastPutOn(path, n) == CHOOSE k \in PutsOn(path, n) : \A m \in PutsOn(path, n) : m <= k

\* C15: after any sequence of puts, GetParameter(path) returns the value and the
\* type tag of the most recent put on that path, whether or not the path existed
\* before, puts on other paths leaving it unchanged; on a path never put it
\* returns an error.
C15_PutThenGet ==
    sgot.done =>
        IF PutsOn(sgot.path, sgot.at) = {}
        THEN ~sgot.ok
        ELSE /\ sgot.ok
             /\ sgot.value = sputs[LastPutOn(sgot.path, sgot.at)].value
             /\ sgot.type = sputs[LastPutOn(sgot.path, sgot.at)].type

\* A path was put twice with different values and types, another path was put
\* after that, and the first path was then read.
C15_Witness ==
    /\ sgot.done /\ sgot.ok /\ sgot.at = 3
    /\ sputs[1].path = sgot.path /\ sputs[2].path = sgot.path /\ sputs[3].path # sgot.path
    /\ sputs[1].value # sputs[2].value /\ sputs[1].type # sputs[2].type

\* The successful fetches of secrets named name, by the secret's position.
FetchedItems(name) ==
    { k \in DOMAIN container.Secrets :
        /\ container.Secrets[k].Name = name
        /\ \E c \in DOMAIN calls : calls[c].item = k /\ calls[c].ok }
LastFetchedValue(name) ==
    LET k == CHOOSE a \in FetchedItems(name) : \A b \in FetchedItems(name) : b <= a
    IN  (CHOOSE c \in { calls[x] : x \in DOMAIN calls } : c.item = k /\ c.ok).value
\* The lines the dated .env file is to hold.
ExpectedEnvLines ==
    { name \o <<"=">> \o LastFetchedValue(name) :
        name \in { n \in { container.Secrets[k].Name : k \in DOMAIN container.Secrets } :
                     FetchedItems(n) # {} } }

\* C17: with an output prefix the dated .env file of bulk get holds exactly one
\* line for each name with a successful fetch, carrying the value of the last
\* such secret in array order, and no line for a name whose every fetch failed
\* or whose ARN was invalid.
C17_LastWriteWins ==
    (bop = "get" /\ bsaved) =>
        LET ls == Split(outEnvFile, "\n")
            n == Len(ls) - 1
        IN  /\ ls[Len(ls)] = <<>>
            /\ n = Cardinality(ExpectedEnvLines)
            /\ { ls[k] : k \in 1..n } = ExpectedEnvLines

\* Two secrets of one name were fetched with different values, and the file was
\* saved.
C17_Witness ==
    /\ bop = "get" /\ bsaved
    /\ Len(container.Secrets) = 2
    /\ container.Secrets[1].Name = container.Secrets[2].Name
    /\ \E c \in DOMAIN calls : \E d \in DOMAIN calls :
          /\ calls[c].item = 1 /\ calls[d].item = 2
          /\ calls[c].ok /\ calls[d].ok
          /\ calls[c].value # calls[d].value

---------------------------------------------------------------------------
(* Termination and line consumption of the env parser loop *)

\* The lines that opened an entry or were appended to one, with repetitions.
RECURSIVE Flatten(_)
Flatten(ss) == IF ss = <<>> THEN <<>> ELSE Head(ss) \o Flatten(Tail(ss))
UsedLines == openedAt \o Flatten(contOf)

\* No line is used twice, the outer loop is past every used line, and there are
\* no more entries than lines.
LinesConsumedOnce ==
    /\ \A a \in DOMAIN UsedLines : \A b \in DOMAIN UsedLines :
          a # b => UsedLines[a] # UsedLines[b]
    /\ \A a \in DOMAIN UsedLines : UsedLines[a] \in 1..Len(lines)
    /\ pc \in {"outer", "done"} => \A a \in DOMAIN UsedLines : UsedLines[a] < i
    /\ Len(secrets) <= Len(lines)
    /\ Len(openedAt) <= Len(lines)

\* From one iteration of the outer loop to the next the index grows.
OuterIndexGrows ==
    (pc' = "outer" /\ pc # "done") =>
        i' > (IF pc = "outer" THEN i ELSE openedAt[Len(openedAt)])

\* The line the parser stands at: i at the outer loop and when an entry is
\* emitted, the last line looked at inside the accumulation loop.
ParserPosition == IF pc = "accum" THEN j - 1 ELSE i

\* A natural number that every step of the loop makes smaller: the lines left
\* from the parser's position, then the steps left at that position.
ParserRank ==
    IF pc = "done" THEN 0
    ELSE 3 * (Len(lines) + 1 - ParserPosition)
         + (IF pc = "outer" THEN 2 ELSE IF pc = "accum" THEN 1 ELSE 0)

\* Until the loop has ended its indices are where one of its branches applies:
\* a line of the input, or one past the last line, where the loop condition
\* fails.
ParserNeverStuck ==
    /\ ParserRank >= 0
    /\ pc = "outer" => i \in 1..(Len(lines) + 1)
    /\ pc = "accum" => i \in 1..Len(lines) /\ j \in (i + 1)..(Len(lines) + 1)
    /\ pc = "emit" => i \in 1..Len(lines)

\* C18: the parser loop terminates on every finite input (every step lowers a
\* natural number and the loop is never stuck before its end); the outer index
\* grows on every iteration; every line is skipped, opens one entry or is
\* appended to one entry's value, never more than one of these; the entries are
\* never more than the lines.
C18_ParserTerminates ==
    /\ []LinesConsumedOnce
    /\ []ParserNeverStuck
    /\ [][OuterIndexGrows /\ ParserRank' < ParserRank]_vars

\* The parse has ended with a skipped line, two entries, and lines appended to
\* an entry up to the end of the input.
C18_Witness ==
    /\ pc = "done"
    /\ Len(secrets) = 2
    /\ Len(UsedLines) < Len(lines)
    /\ contOf[2] # <<>>
    /\ contOf[2][Len(contOf[2])] = Len(lines)

===========================================================================
